---- MODULE Spec2Model ----
(***************************************************************************)
(* Model of js/main.js: the in-page search feature (Search object), the    *)
(* debounce utility it relies on, and the event dispatch that drives it.   *)
(*                                                                         *)
(* Strings are sequences of one-character strings.  The document is the    *)
(* sequence of the element children of <body> that the indexer can see;    *)
(* an element is a record [tag, text, id, kids] whose kids are leaf        *)
(* elements.  A position is a path: <<i>> for the i-th top-level element,  *)
(* <<i, j>> for the j-th child of the i-th top-level element.              *)
(***************************************************************************)
EXTENDS Integers, Sequences, FiniteSets, TLC

VARIABLES
  loaded,             \* DOMContentLoaded has been dispatched
  doc,                \* the document's content elements
  href,               \* window.location.href, a sequence of tokens
  value,              \* value[k]: text typed in the k-th #site-search input
  containerActive,    \* containerActive[k]: k-th .search-container has class active
  resultsActive,      \* resultsActive[k]: k-th #search-results has class active
  innerHTML,          \* entries rendered in the first #search-results
  timers,             \* pending setTimeout callbacks of the debounced listeners
  queue,              \* listeners still to run for the event being dispatched
  last,               \* the listener or callback that ran in the latest step,
                      \* with the locals of performSearch (lines 610-618) and
                      \* the scroll request it made (ScrollToElement)
  osi,                \* the OSI layer cards and the last call of window.toggleOSILayer
  quiz,               \* the quiz options, #quiz-feedback and the reset timeouts
  throttle,           \* the closure utils.throttle returned and its calls
  layerCard,          \* the layer card handed to window.toggleLayer: its
                      \* .layer-details, its .layer-toggle and the pending
                      \* timeouts of its collapse animation
  menu                \* the mobile menu: the classes of the hamburger
                      \* button, the nav menu and the overlay, the body's
                      \* overflow, and the event being dispatched

vars == <<loaded, doc, href, value, containerActive, resultsActive, innerHTML,
          timers, queue, last, layerCard, menu, osi, quiz, throttle>>

uiVars == <<loaded, value, containerActive, resultsActive, innerHTML, timers,
            queue>>

(***************************************************************************)
(* Bounds of the model.                                                    *)
(***************************************************************************)
MaxIndexNodes == 5     \* top-level elements of a document, indexer runs
MaxFilterNodes == 7    \* top-level elements of a document, filter runs
MaxQueryLen == 1       \* characters typed in a search input

(***************************************************************************)
(* Program constants.                                                      *)
(***************************************************************************)
DebounceWait == 300    \* utils.debounce(performSearch, 300)
MaxResults == 5        \* .slice(0, 5)
SnippetLen == 150      \* result.content.substring(0, 150)
ScrollOffset == 80     \* scrollToElement(element, offset = 80)
CollapseDelay == 300   \* setTimeout(..., 300) in window.toggleLayer
FocusDelay == 100      \* setTimeout(..., 100) in Accessibility.setupFocusManagement
ResetDelay == 5000     \* setTimeout(..., 5000) in window.checkAnswer
ScrollLimit == 16      \* utils.throttle(..., 16) in ScrollManager.bindEvents

TimeStep == DebounceWait \div 2

(***************************************************************************)
(* Strings.                                                                *)
(***************************************************************************)
Min(a, b) == IF a < b THEN a ELSE b

\* String.prototype.toLowerCase on one character
LowerChar(c) ==
  CASE c = "A" -> "a"
    [] c = "B" -> "b"
    [] c = "L" -> "l"
    [] c = "N" -> "n"
    [] OTHER -> c

ToLowerCase(s) == [i \in 1..Len(s) |-> LowerChar(s[i])]

IsSpace(c) == c = " "

RECURSIVE TrimStart(_)
TrimStart(s) ==
  IF s # << >> /\ IsSpace(Head(s)) THEN TrimStart(Tail(s)) ELSE s

RECURSIVE TrimEnd(_)
TrimEnd(s) ==
  IF s # << >> /\ IsSpace(s[Len(s)]) THEN TrimEnd(SubSeq(s, 1, Len(s) - 1)) ELSE s

\* String.prototype.trim
Trim(s) == TrimEnd(TrimStart(s))

\* String.prototype.includes
Includes(s, q) ==
  \E i \in 1..(Len(s) - Len(q) + 1) : SubSeq(s, i, i + Len(q) - 1) = q

\* String.prototype.substring(0, n)
Substring0(s, n) == SubSeq(s, 1, Min(n, Len(s)))

\* the concatenation of the strings of ss, in order
RECURSIVE Flatten(_)
Flatten(ss) ==
  IF ss = << >> THEN << >>
  ELSE IF Len(ss) = 1 THEN ss[1]
  ELSE Flatten(SubSeq(ss, 1, Len(ss) \div 2))
       \o Flatten(SubSeq(ss, Len(ss) \div 2 + 1, Len(ss)))

(***************************************************************************)
(* The document.                                                           *)
(***************************************************************************)
HeadingTags == {"h1", "h2", "h3", "h4", "h5", "h6"}

\* element.matches("h1, h2, h3, h4, h5, h6")
MatchesHeading(e) == e.tag \in HeadingTags

Leaf(tag, text, id) == [tag |-> tag, text |-> text, id |-> id, kids |-> << >>]
Box(kids) == [tag |-> "div", text |-> << >>, id |-> "", kids |-> kids]

\* Node.textContent: the text of the element and of its descendants
TextContent(e) == e.text \o Flatten([j \in 1..Len(e.kids) |-> e.kids[j].text])

\* all element positions, in document order
RECURSIVE ElementsFrom(_, _)
ElementsFrom(d, i) ==
  IF i > Len(d) THEN << >>
  ELSE <<(<<i>>)>> \o [j \in 1..Len(d[i].kids) |-> <<i, j>>] \o ElementsFrom(d, i + 1)

Elements(d) == ElementsFrom(d, 1)

ElementAt(d, p) == IF Len(p) = 1 THEN d[p[1]] ELSE d[p[1]].kids[p[2]]

\* the children of the parent of p, and the index of p among them
SiblingChain(d, p) == IF Len(p) = 1 THEN d ELSE d[p[1]].kids
IndexInParent(p) == p[Len(p)]

IsHeadingAt(d, p) == MatchesHeading(ElementAt(d, p))

\* a selector that misses the headings nested in containers
QuerySelectorAllHeadings_TopLevel(d) ==
  SelectSeq(Elements(d), LAMBDA p : Len(p) = 1 /\ IsHeadingAt(d, p))

\* document.querySelectorAll("h1, h2, h3, h4, h5, h6")
QuerySelectorAllHeadings(d) ==
  SelectSeq(Elements(d), LAMBDA p : IsHeadingAt(d, p))

\* document.getElementById: the first element in document order with that
\* id, << >> (null) when there is none; the empty id matches nothing
GetElementById(d, id) ==
  LET hits == SelectSeq(Elements(d), LAMBDA p : ElementAt(d, p).id = id)
  IN IF id = "" \/ hits = << >> THEN << >> ELSE Head(hits)

(***************************************************************************)
(* Search.getSearchableContent (lines 645-672).                            *)
(***************************************************************************)
\* a loop that does not stop at a sibling heading
RECURSIVE CollectContent_PastHeading(_, _, _)
CollectContent_PastHeading(sibs, k, contentText) ==
  IF k > Len(sibs) THEN contentText
  ELSE CollectContent_PastHeading(sibs, k + 1,
         IF TextContent(sibs[k]) # << >>
         THEN contentText \o TextContent(sibs[k]) \o <<" ">>
         ELSE contentText)

\* lines 656-661: the while loop over nextElementSibling
RECURSIVE CollectContent(_, _, _)
CollectContent(sibs, k, contentText) ==
  IF k > Len(sibs) \/ MatchesHeading(sibs[k]) THEN contentText
  ELSE CollectContent(sibs, k + 1,
         IF TextContent(sibs[k]) # << >>
         THEN contentText \o TextContent(sibs[k]) \o <<" ">>
         ELSE contentText)

\* the url of a record: location.href + "#" + (heading.id || "")
RecordUrl(h, id) == h \o <<"#">> \o (IF id = "" THEN << >> ELSE <<id>>)

\* lines 651-669: the record pushed for one heading
HeadingRecord(d, h, p) ==
  [title   |-> Trim(TextContent(ElementAt(d, p))),
   content |-> Trim(CollectContent(SiblingChain(d, p), IndexInParent(p) + 1, << >>)),
   element |-> p,
   url     |-> RecordUrl(h, ElementAt(d, p).id)]

\* an index built once, when the script is evaluated and the page has no
\* content yet, and reused by every search
GetSearchableContent_AtLoad(d, h) == << >>

GetSearchableContent(d, h) ==
  LET headings == QuerySelectorAllHeadings(d)
  IN [i \in 1..Len(headings) |-> HeadingRecord(d, h, headings[i])]

(***************************************************************************)
(* Search.highlightQuery and Search.displaySearchResults (lines 674-724).  *)
(* Markup is a sequence of tokens: characters and the two mark tags.       *)
(***************************************************************************)
\* a match that compares the characters as they are
MatchesAt_CaseSensitive(text, i, q) ==
  /\ i + Len(q) - 1 <= Len(text)
  /\ SubSeq(text, i, i + Len(q) - 1) = q

\* does the pattern (query), flags "gi", match text at offset i
MatchesAt(text, i, q) ==
  /\ i + Len(q) - 1 <= Len(text)
  /\ ToLowerCase(SubSeq(text, i, i + Len(q) - 1)) = ToLowerCase(q)

\* text.replace(regex, "<mark>$1</mark>") for a query of literal characters:
\* the search for the next match starts at offset i, the characters before
\* the match are copied, and the search resumes after the match
RECURSIVE ReplaceFrom(_, _, _)
ReplaceFrom(text, i, q) ==
  LET matches == {j \in i..Len(text) : MatchesAt(text, j, q)}
  IN IF matches = { } THEN SubSeq(text, i, Len(text))
     ELSE LET j == CHOOSE j \in matches : \A m \in matches : j <= m
          IN SubSeq(text, i, j - 1)
             \o <<"<mark>">> \o SubSeq(text, j, j + Len(q) - 1) \o <<"</mark>">>
             \o ReplaceFrom(text, j + Len(q), q)

HighlightQuery(text, q) == IF q = << >> THEN text ELSE ReplaceFrom(text, 1, q)

\* lines 679-684: the fixed entry, no data-url and no click handler
NoResultsEntry ==
  [title   |-> <<"No se encontraron resultados">>,
   snippet |-> <<"Intenta con otros terminos de busqueda">>,
   url     |-> << >>,
   handler |-> FALSE]

\* an entry whose snippet is highlighted without being truncated
ResultEntry_WholeContent(r, q) ==
  [title   |-> HighlightQuery(r.title, q),
   snippet |-> HighlightQuery(r.content \o <<".", ".", ".">>, q),
   url     |-> r.url,
   handler |-> TRUE]

\* lines 687-697 and 701-714: one entry per result, each with a click handler
ResultEntry(r, q) ==
  [title   |-> HighlightQuery(r.title, q),
   snippet |-> HighlightQuery(Substring0(r.content, SnippetLen) \o <<".", ".", ".">>, q),
   url     |-> r.url,
   handler |-> TRUE]

\* a renderer without the placeholder for an empty result list
RenderResults_NoPlaceholder(rs, q) ==
  [i \in 1..Len(rs) |-> ResultEntry(rs[i], q)]

\* the markup assigned to searchResults.innerHTML
RenderResults(rs, q) ==
  IF Len(rs) = 0 THEN <<NoResultsEntry>>
  ELSE [i \in 1..Len(rs) |-> ResultEntry(rs[i], q)]

(***************************************************************************)
(* performSearch (lines 609-623).                                          *)
(***************************************************************************)
\* a query that is trimmed but keeps its letter case
NormalizeQuery_KeepCase(v) == Trim(v)

\* line 610: searchInput.value.toLowerCase().trim()
NormalizeQuery(v) == Trim(ToLowerCase(v))

\* a guard that lets the empty query through
IsEmptyQuery_Never(q) == FALSE

\* line 611: !query
IsEmptyQuery(q) == q = << >>

\* line 619: the filter predicate
ItemMatches(item, q) ==
  \/ Includes(ToLowerCase(item.title), q)
  \/ Includes(ToLowerCase(item.content), q)

\* a filter without the cap
FilterResults_Uncapped(content, q) ==
  SelectSeq(content, LAMBDA item : ItemMatches(item, q))

\* lines 618-620: filter(...).slice(0, 5)
FilterResults(content, q) ==
  LET hits == SelectSeq(content, LAMBDA item : ItemMatches(item, q))
  IN SubSeq(hits, 1, Min(MaxResults, Len(hits)))

\* document.getElementById("site-search"), getElementById("search-results")
\* and querySelector(".search-container") return the first such element in
\* document order: the one created by the first Search.init
FirstOf(f) == CHOOSE i \in DOMAIN f : \A j \in DOMAIN f : i <= j

\* nothing ran in the latest step
NoOp == [op |-> "none", k |-> 0, via |-> "", query |-> << >>,
         indexed |-> FALSE, latest |-> FALSE,
         searchableContent |-> << >>, results |-> << >>,
         wasOpen |-> FALSE, wasShown |-> FALSE, scrollTo |-> << >>,
         text |-> << >>, html |-> << >>]

\* some search container, some results panel carries the class active
OpenNow == \E j \in DOMAIN containerActive : containerActive[j]
ShownNow == \E j \in DOMAIN resultsActive : resultsActive[j]

\* the record of a listener run; wasOpen and wasShown tell whether a
\* container was open and the results were shown when the event it handles
\* was dispatched (last is NoOp when a dispatch starts)
Ran(op, k) ==
  [NoOp EXCEPT !.op = op, !.k = k,
               !.wasOpen = IF last.op = "none" THEN OpenNow ELSE last.wasOpen,
               !.wasShown = IF last.op = "none" THEN ShownNow ELSE last.wasShown]

\* the body of performSearch run by the closure of the k-th Search.init
PerformSearch(k, via, latest) ==
  LET query == NormalizeQuery(value[FirstOf(value)])
      index == GetSearchableContent(doc, href)
      found == FilterResults(index, query)
      base == IF via = "timer"
              THEN [NoOp EXCEPT !.op = "performSearch", !.k = k,
                                !.wasOpen = OpenNow, !.wasShown = ShownNow]
              ELSE Ran("performSearch", k)
      ran == [base EXCEPT !.via = via, !.query = query, !.latest = latest]
  IN IF IsEmptyQuery(query)
     THEN /\ resultsActive' = [resultsActive EXCEPT ![FirstOf(resultsActive)] = FALSE]
          /\ last' = ran
          /\ UNCHANGED innerHTML
     ELSE /\ innerHTML' = RenderResults(found, query)
          /\ resultsActive' = [resultsActive EXCEPT ![FirstOf(resultsActive)] = TRUE]
          /\ last' = [ran EXCEPT !.indexed = TRUE, !.searchableContent = index,
                                 !.results = found]

(***************************************************************************)
(* Page load.  Three DOMContentLoaded listeners are registered (lines 433, *)
(* 971 and 1037); the first two call Search.init.                          *)
(***************************************************************************)
DOMContentLoadedListeners ==
  << [name |-> "INIT", searchInit |-> TRUE],
     [name |-> "INITIALIZATION", searchInit |-> TRUE],
     [name |-> "hamburger", searchInit |-> FALSE] >>

\* Search.createSearchFunction, lines 449-596: a new container with its
\* input, submit button and results panel, and a new toggle button, all
\* appended after the existing ones
CreateSearchFunction(s) ==
  [value           |-> Append(s.value, << >>),
   containerActive |-> Append(s.containerActive, FALSE),
   resultsActive   |-> Append(s.resultsActive, FALSE)]

RECURSIVE RunInitListeners(_, _)
RunInitListeners(ls, s) ==
  IF ls = << >> THEN s
  ELSE RunInitListeners(Tail(ls),
         IF Head(ls).searchInit THEN CreateSearchFunction(s) ELSE s)

NoSearchUi == [value |-> << >>, containerActive |-> << >>, resultsActive |-> << >>]

AfterLoad == RunInitListeners(DOMContentLoadedListeners, NoSearchUi)

\* the closures created by the calls of Search.init
Closures == DOMAIN value

Hrefs == { <<"page">>, <<"page", "#", "y">> }

\* a layer card as the page's markup has it: the details hidden, the button
\* reporting collapsed, no inline style; title is the text of .layer-title
CollapsedCard(title) ==
  [title |-> title,
   hidden |-> TRUE,
   textContent |-> "+",
   ariaExpanded |-> "false",
   ariaLabel |-> <<"Expandir">> \o title,
   maxHeight |-> "", opacity |-> "", transition |-> "",
   timeouts |-> << >>]

\* the mobile menu as the page's markup has it: closed.  The button
\* matches #hamburger and .hamburger, the menu #nav-menu and .nav-menu;
\* hasOverlay tells whether the page has an element #menu-overlay
ClosedMenu(hasOverlay) ==
  [hasOverlay |-> hasOverlay,
   hamburgerActive |-> FALSE,
   navMenuActive |-> FALSE,
   overlayActive |-> FALSE,
   ariaExpanded |-> "false",
   overflow |-> "",
   event |-> "", wasOpen |-> FALSE,
   focused |-> FALSE,
   timeouts |-> << >>]

\* a page without OSI layer cards; element is the argument of the last call
\* of window.toggleOSILayer and before the cards as that call found them
NoOsiLayers == [cards |-> << >>, element |-> 0, before |-> << >>]

\* a page without quiz options and without #quiz-feedback; button is the
\* argument of the last call of window.checkAnswer that got past its early
\* returns and op tells whether that call or a reset timeout ran last
NoQuiz ==
  [options |-> << >>,
   hasFeedback |-> FALSE,
   feedbackHidden |-> TRUE,
   feedbackHTML |-> "",
   timeouts |-> << >>,
   button |-> 0, op |-> ""]

\* lines 24-26: the closure utils.throttle(func, limit) returns, with
\* inThrottle declared and not assigned.  calls and invocations count the
\* calls of the closure and of func, inWindow the invocations of func since
\* the last reopening; op, wasInThrottle, invoked and invocationsBefore
\* describe the latest step
Throttle(limit) ==
  [limit |-> limit,
   inThrottle |-> "undefined",
   timeouts |-> << >>,
   calls |-> 0, invocations |-> 0, inWindow |-> 0,
   op |-> "", wasInThrottle |-> "undefined", invoked |-> FALSE,
   invocationsBefore |-> 0]

\* the script has been evaluated, DOMContentLoaded has not been dispatched
Unloaded(d, h) ==
  /\ loaded = FALSE
  /\ doc = d
  /\ href = h
  /\ value = << >>
  /\ containerActive = << >>
  /\ resultsActive = << >>
  /\ innerHTML = << >>
  /\ timers = << >>
  /\ queue = << >>
  /\ last = NoOp
  /\ layerCard = CollapsedCard(<< >>)
  /\ throttle = Throttle(ScrollLimit)
  /\ quiz = NoQuiz
  /\ osi = NoOsiLayers
  /\ menu = ClosedMenu(TRUE)

DOMContentLoaded ==
  /\ ~loaded
  /\ loaded' = TRUE
  /\ value' = AfterLoad.value
  /\ containerActive' = AfterLoad.containerActive
  /\ resultsActive' = AfterLoad.resultsActive
  /\ last' = [NoOp EXCEPT !.op = "DOMContentLoaded"]
  /\ UNCHANGED <<doc, href, throttle, quiz, osi, menu, layerCard, innerHTML, timers, queue>>

(***************************************************************************)
(* The indexer applied to a bounded set of documents.                      *)
(***************************************************************************)
SeqsUpTo(S, n) == UNION {[1..m -> S] : m \in 0..n}

IndexKinds ==
  { Leaf("h2", <<"a">>, "x"),
    Leaf("h6", <<" ", "b">>, ""),
    Leaf("p", <<"a">>, ""),
    Leaf("p", << >>, ""),
    Leaf("p", <<"b", " ">>, ""),
    Box(<<Leaf("h3", <<"b">>, "y"), Leaf("p", <<"a">>, "")>>) }

IndexDocs == SeqsUpTo(IndexKinds, MaxIndexNodes)

InitIndex == \E d \in IndexDocs : \E h \in Hrefs : Unloaded(d, h)

\* one call of Search.getSearchableContent on the current document
IndexDocument ==
  /\ last.op = "none"
  /\ last' = [NoOp EXCEPT !.op = "getSearchableContent", !.indexed = TRUE,
                          !.searchableContent = GetSearchableContent(doc, href)]
  /\ UNCHANGED <<doc, href, throttle, quiz, osi, menu, layerCard, uiVars>>

NextIndex == IndexDocument

SpecIndex == InitIndex /\ [][NextIndex]_vars

(***************************************************************************)
(* Properties of the indexer.                                              *)
(***************************************************************************)
LevelTag == <<"h1", "h2", "h3", "h4", "h5", "h6">>

IsHeadingElement(e) == \E l \in 1..6 : e.tag = LevelTag[l]

AllPositions(d) ==
  {<<i>> : i \in 1..Len(d)} \cup
  UNION {{<<i, j>> : j \in 1..Len(d[i].kids)} : i \in 1..Len(d)}

HeadingPositions(d) == {p \in AllPositions(d) : IsHeadingElement(ElementAt(d, p))}

\* p comes before q in document order (a parent before its children)
Before(p, q) ==
  \/ p[1] < q[1]
  \/ p[1] = q[1] /\ Len(p) < Len(q)
  \/ p[1] = q[1] /\ Len(p) = 2 /\ Len(q) = 2 /\ p[2] < q[2]

\* the i-th heading of d in document order
NthHeading(d, i) ==
  CHOOSE p \in HeadingPositions(d) :
    Cardinality({q \in HeadingPositions(d) : Before(q, p)}) = i - 1

\* t is s without its leading and trailing white space
IsTrimOf(t, s) ==
  /\ t # << >> => t[1] # " " /\ t[Len(t)] # " "
  /\ \E i \in 0..(Len(s) - Len(t)) :
       /\ SubSeq(s, i + 1, i + Len(t)) = t
       /\ \A n \in (1..i) \cup ((i + Len(t) + 1)..Len(s)) : s[n] = " "

IndexIsCurrent == last.op = "getSearchableContent"

searchableContent == last.searchableContent

\* C1: the index has exactly one record per heading element (h1-h6), in
\* document order, and the title of the i-th record is the trimmed text of
\* the i-th heading.
OneRecordPerHeading ==
  IndexIsCurrent =>
    /\ Len(searchableContent) = Cardinality(HeadingPositions(doc))
    /\ \A i \in 1..Len(searchableContent) :
         /\ searchableContent[i].element = NthHeading(doc, i)
         /\ IsTrimOf(searchableContent[i].title,
                     TextContent(ElementAt(doc, NthHeading(doc, i))))

\* a document with a nested heading and a title that needed trimming
OneRecordPerHeadingWitness ==
  /\ IndexIsCurrent
  /\ Len(searchableContent) >= 3
  /\ \E i \in 1..Len(searchableContent) : Len(searchableContent[i].element) = 2
  /\ \E i \in 1..Len(searchableContent) :
       searchableContent[i].title # TextContent(ElementAt(doc, searchableContent[i].element))

\* the document cut just before position q: q and everything after it in
\* document order is removed
TruncateBefore(d, q) ==
  LET tops == {i \in 1..Len(d) : Before(<<i>>, q)}
  IN [i \in 1..Cardinality(tops) |->
        [d[i] EXCEPT !.kids =
           SubSeq(d[i].kids, 1, Cardinality({j \in 1..Len(d[i].kids) : Before(<<i, j>>, q)}))]]

\* C2: the content of a record contains nothing of a later heading or of
\* what follows it: cutting the document at any later heading leaves the
\* content of the record as it is.
ContentStopsAtLaterHeading ==
  IndexIsCurrent =>
    \A i \in 1..Len(searchableContent) : \A j \in 1..Len(searchableContent) :
      i < j =>
        searchableContent[i].content =
          HeadingRecord(TruncateBefore(doc, searchableContent[j].element), href,
                        searchableContent[i].element).content

\* the following siblings of p up to the first heading among them
SiblingsUntilHeading(d, p) ==
  LET sibs == SiblingChain(d, p)
      from == IndexInParent(p) + 1
      stops == {k \in from..Len(sibs) : IsHeadingElement(sibs[k])}
      stop == IF stops = {} THEN Len(sibs) + 1
              ELSE CHOOSE k \in stops : \A m \in stops : k <= m
  IN SubSeq(sibs, from, stop - 1)

RECURSIVE JoinWithSpaces(_)
JoinWithSpaces(texts) ==
  IF texts = << >> THEN << >>
  ELSE IF Len(texts) = 1 THEN texts[1]
  ELSE texts[1] \o <<" ">> \o JoinWithSpaces(Tail(texts))

SiblingTexts(d, p) ==
  LET sibs == SiblingsUntilHeading(d, p)
  IN [k \in 1..Len(sibs) |-> TextContent(sibs[k])]

\* the non-empty queries a search can be made with
ProbeQueries == {q \in SeqsUpTo({"a", "b", " "}, 2) : q # << >> /\ Trim(q) = q}

\* a record without content matches only through its title
EmptyContentMatchesByTitle ==
  \A i \in 1..Len(searchableContent) :
    LET r == searchableContent[i]
    IN SiblingsUntilHeading(doc, r.element) = << >> =>
         /\ r.content = << >>
         /\ \A q \in ProbeQueries :
              ItemMatches(r, q) <=> Includes(ToLowerCase(r.title), q)

\* C3 as stated: the content is the text contents of all the following
\* siblings up to the first heading, joined with single spaces and trimmed.
ContentJoinsAllSiblings ==
  IndexIsCurrent =>
    /\ \A i \in 1..Len(searchableContent) :
         searchableContent[i].content =
           Trim(JoinWithSpaces(SiblingTexts(doc, searchableContent[i].element)))
    /\ EmptyContentMatchesByTitle

\* C3 amended: the content is the non-empty text contents of the following
\* siblings up to the first heading, joined with single spaces and trimmed;
\* a heading without such a sibling yields a record with empty content that
\* matches only through its title.
ContentJoinsNonEmptySiblings ==
  IndexIsCurrent =>
    /\ \A i \in 1..Len(searchableContent) :
         searchableContent[i].content =
           Trim(JoinWithSpaces(SelectSeq(SiblingTexts(doc, searchableContent[i].element),
                                         LAMBDA t : t # << >>)))
    /\ EmptyContentMatchesByTitle

\* a heading followed by text, an empty element and text again, and a
\* heading with nothing to collect
ContentJoinsNonEmptySiblingsWitness ==
  /\ IndexIsCurrent
  /\ \E i \in 1..Len(searchableContent) :
       LET texts == SiblingTexts(doc, searchableContent[i].element)
       IN /\ Len(texts) = 3
          /\ texts[1] # << >> /\ texts[2] = << >> /\ texts[3] # << >>
  /\ \E i \in 1..Len(searchableContent) :
       /\ IF Len(searchableContent[i].element) = 1
          THEN searchableContent[i].element[1] < Len(doc)
          ELSE FALSE
       /\ SiblingsUntilHeading(doc, searchableContent[i].element) = << >>

(***************************************************************************)
(* Event dispatch.  An event queues the listeners registered for it, in    *)
(* registration order along the propagation path; each listener runs to    *)
(* completion as one step, and no other event or timer is handled until    *)
(* the queue is empty.  Focus is not part of the state.                    *)
(***************************************************************************)
Listener(fn, k, target) == [fn |-> fn, k |-> k, target |-> target]

InToggle(k) == [part |-> "toggle", k |-> k]
InContainer(k) == [part |-> "container", k |-> k]
Outside == [part |-> "outside", k |-> 0]

\* the two document click listeners (line 637), one per Search.init
DocClickListeners(target) ==
  [k \in 1..Len(value) |-> Listener("docClick", k, target)]

Idle == loaded /\ queue = << >>

\* utils.debounce (lines 12-22).  A pending timer is a record; cur marks the
\* timer whose id the closure variable timeout holds, latest marks a timer
\* set after the latest input event.
ClearTimeout(ts, k) == SelectSeq(ts, LAMBDA t : ~(t.owner = k /\ t.cur))

SetTimeout(ts, k, wait) ==
  [i \in 1..Len(ts) |-> IF ts[i].owner = k THEN [ts[i] EXCEPT !.cur = FALSE] ELSE ts[i]]
  \o << [owner |-> k, left |-> wait, cur |-> TRUE, latest |-> TRUE] >>

\* lines 14-21: executedFunction
ExecutedFunction(ts, k) == SetTimeout(ClearTimeout(ts, k), k, DebounceWait)

\* ---- user events ----
ClickToggle(k) ==
  /\ Idle
  /\ queue' = <<Listener("toggle", k, InToggle(k))>> \o DocClickListeners(InToggle(k))
  /\ UNCHANGED <<loaded, doc, href, throttle, quiz, osi, menu, layerCard, value, containerActive, resultsActive, innerHTML,
                 timers>>
  /\ last' = NoOp

\* the submit button of the k-th container, reachable while it is visible
ClickSubmit(k) ==
  /\ Idle
  /\ containerActive[k]
  /\ queue' = <<Listener("performSearch", k, InContainer(k))>>
              \o DocClickListeners(InContainer(k))
  /\ UNCHANGED <<loaded, doc, href, throttle, quiz, osi, menu, layerCard, value, containerActive, resultsActive, innerHTML,
                 timers>>
  /\ last' = NoOp

\* a click on the input or the padding of the k-th container
ClickInside(k) ==
  /\ Idle
  /\ containerActive[k]
  /\ queue' = DocClickListeners(InContainer(k))
  /\ UNCHANGED <<loaded, doc, href, throttle, quiz, osi, menu, layerCard, value, containerActive, resultsActive, innerHTML,
                 timers>>
  /\ last' = NoOp

\* a click on the n-th rendered entry; the entries live in the first
\* results panel, inside the first container
ClickItem(n) ==
  /\ Idle
  /\ containerActive[FirstOf(containerActive)]
  /\ resultsActive[FirstOf(resultsActive)]
  /\ n \in 1..Len(innerHTML)
  /\ queue' = (IF innerHTML[n].handler
               THEN <<Listener("item", n, InContainer(FirstOf(containerActive)))>>
               ELSE << >>)
              \o DocClickListeners(InContainer(FirstOf(containerActive)))
  /\ UNCHANGED <<loaded, doc, href, throttle, quiz, osi, menu, layerCard, value, containerActive, resultsActive, innerHTML,
                 timers>>
  /\ last' = NoOp

ClickOutside ==
  /\ Idle
  /\ queue' = DocClickListeners(Outside)
  /\ UNCHANGED <<loaded, doc, href, throttle, quiz, osi, menu, layerCard, value, containerActive, resultsActive, innerHTML,
                 timers>>
  /\ last' = NoOp

PressEscape ==
  /\ Idle
  /\ queue' = [k \in 1..Len(value) |-> Listener("escape", k, Outside)]
  /\ UNCHANGED <<loaded, doc, href, throttle, quiz, osi, menu, layerCard, value, containerActive, resultsActive, innerHTML,
                 timers>>
  /\ last' = NoOp

\* an input event on the k-th input with new value v.  Only the first input
\* carries input listeners (line 594 looks the input up by id): one
\* debounced listener per Search.init.
InputEvent(k, v) ==
  /\ Idle
  /\ containerActive[k]
  /\ value' = [value EXCEPT ![k] = v]
  /\ IF k = FirstOf(value)
     THEN /\ queue' = [j \in 1..Len(value) |-> Listener("debounced", j, InContainer(k))]
          /\ timers' = [i \in 1..Len(timers) |-> [timers[i] EXCEPT !.latest = FALSE]]
     ELSE UNCHANGED <<queue, timers>>
  /\ last' = NoOp
  /\ UNCHANGED <<loaded, doc, href, throttle, quiz, osi, menu, layerCard, containerActive, resultsActive, innerHTML>>

TypingChars == {"a", " "}

TypeChar(k) ==
  \E c \in TypingChars :
    /\ loaded
    /\ Len(value[k]) < MaxQueryLen
    /\ InputEvent(k, Append(value[k], c))

Backspace(k) ==
  /\ loaded
  /\ value[k] # << >>
  /\ InputEvent(k, SubSeq(value[k], 1, Len(value[k]) - 1))

\* ---- listeners ----
Running(fn) == loaded /\ queue # << >> /\ Head(queue).fn = fn

\* lines 599-606: the toggle button of the k-th Search.init
RunToggle ==
  /\ Running("toggle")
  /\ LET k == Head(queue).k
     IN /\ containerActive' = [containerActive EXCEPT ![k] = ~containerActive[k]]
        /\ last' = Ran("toggle", k)
  /\ queue' = Tail(queue)
  /\ UNCHANGED <<loaded, doc, href, throttle, quiz, osi, menu, layerCard, value, resultsActive, innerHTML, timers>>

\* line 626: performSearch as the click listener of the submit button
RunPerformSearch ==
  /\ Running("performSearch")
  /\ PerformSearch(Head(queue).k, "click", FALSE)
  /\ queue' = Tail(queue)
  /\ UNCHANGED <<loaded, doc, href, throttle, quiz, osi, menu, layerCard, value, containerActive, timers>>

\* line 625: the debounced input listener of the k-th Search.init
RunDebounced ==
  /\ Running("debounced")
  /\ timers' = ExecutedFunction(timers, Head(queue).k)
  /\ last' = Ran("debounced", Head(queue).k)
  /\ queue' = Tail(queue)
  /\ UNCHANGED <<loaded, doc, href, throttle, quiz, osi, menu, layerCard, value, containerActive, resultsActive, innerHTML>>

\* an Escape listener that leaves the results panel as it is
EscapeListener_KeepResults(k) ==
  /\ containerActive' = [containerActive EXCEPT ![k] = FALSE]
  /\ UNCHANGED resultsActive

\* lines 629-634; searchResults is the first results panel (line 595)
EscapeListener(k) ==
  /\ containerActive' = [containerActive EXCEPT ![k] = FALSE]
  /\ resultsActive' = [resultsActive EXCEPT ![FirstOf(resultsActive)] = FALSE]

RunEscape ==
  /\ Running("escape")
  /\ EscapeListener(Head(queue).k)
  /\ last' = Ran("escape", Head(queue).k)
  /\ queue' = Tail(queue)
  /\ UNCHANGED <<loaded, doc, href, throttle, quiz, osi, menu, layerCard, value, innerHTML, timers>>

\* searchContainer.contains(target) and searchToggle.contains(target)
ContainerContains(k, target) == target = InContainer(k)
ToggleContains(k, target) == target = InToggle(k)

\* lines 637-642
RunDocClick ==
  /\ Running("docClick")
  /\ LET k == Head(queue).k
         target == Head(queue).target
     IN /\ IF ~ContainerContains(k, target) /\ ~ToggleContains(k, target)
           THEN /\ containerActive' = [containerActive EXCEPT ![k] = FALSE]
                /\ resultsActive' =
                     [resultsActive EXCEPT ![FirstOf(resultsActive)] = FALSE]
           ELSE UNCHANGED <<containerActive, resultsActive>>
        /\ last' = Ran("docClick", k)
  /\ queue' = Tail(queue)
  /\ UNCHANGED <<loaded, doc, href, throttle, quiz, osi, menu, layerCard, value, innerHTML, timers>>

\* url.includes("#") and url.split("#")[1], as an element id
HashIndexes(url) == {i \in 1..Len(url) : url[i] = "#"}

SecondSegment(url) ==
  LET first == CHOOSE i \in HashIndexes(url) : \A j \in HashIndexes(url) : i <= j
      later == {i \in HashIndexes(url) : i > first}
      stop == IF later = {} THEN Len(url) + 1
              ELSE CHOOSE i \in later : \A j \in later : i <= j
      seg == SubSeq(url, first + 1, stop - 1)
  IN IF Len(seg) = 1 THEN seg[1] ELSE ""

\* utils.scrollToElement (lines 47-57): window.scrollTo with the top that
\* puts the element offset pixels below the top of the viewport
ScrollToElement(element) ==
  [element |-> element, offset |-> ScrollOffset, behavior |-> "smooth"]

\* lines 702-713: the click listener of the n-th rendered result
RunItemClick ==
  /\ Running("item")
  /\ LET url == innerHTML[Head(queue).k].url
         element == IF HashIndexes(url) = {} THEN << >>
                    ELSE GetElementById(doc, SecondSegment(url))
     IN IF element # << >>
        THEN /\ last' = [Ran("item", Head(queue).k)
                           EXCEPT !.scrollTo = ScrollToElement(element)]
             /\ resultsActive' = [resultsActive EXCEPT ![FirstOf(resultsActive)] = FALSE]
             /\ containerActive' =
                  [containerActive EXCEPT ![FirstOf(containerActive)] = FALSE]
        ELSE /\ last' = Ran("item", Head(queue).k)
             /\ UNCHANGED <<resultsActive, containerActive>>
  /\ queue' = Tail(queue)
  /\ UNCHANGED <<loaded, doc, href, throttle, quiz, osi, menu, layerCard, value, innerHTML, timers>>

\* ---- time ----
Due(ts) == {i \in 1..Len(ts) : ts[i].left <= 0}

Without(ts, i) == SubSeq(ts, 1, i - 1) \o SubSeq(ts, i + 1, Len(ts))

\* time passes while nothing is due
Tick ==
  /\ Idle
  /\ timers # << >>
  /\ Due(timers) = {}
  /\ timers' = [i \in 1..Len(timers) |-> [timers[i] EXCEPT !.left = @ - TimeStep]]
  /\ UNCHANGED <<loaded, doc, href, throttle, quiz, osi, menu, layerCard, value, containerActive, resultsActive, innerHTML,
                 queue>>
  /\ last' = NoOp

\* lines 15-18: later() of the oldest due timer
TimerFire ==
  /\ Idle
  /\ Due(timers) # {}
  /\ LET i == CHOOSE i \in Due(timers) : \A j \in Due(timers) : i <= j
         t == timers[i]
     IN /\ timers' = ClearTimeout(Without(timers, i), t.owner)
        /\ PerformSearch(t.owner, "timer", t.latest)
  /\ UNCHANGED <<loaded, doc, href, throttle, quiz, osi, menu, layerCard, value, containerActive, queue>>

\* ---- the page content changes under the feature ----
MaxUiNodes == 1

UiKinds ==
  { Leaf("h3", <<"b">>, ""),
    Box(<<Leaf("p", <<"b">>, "y"), Leaf("h3", <<"a">>, ""), Leaf("h2", <<"A">>, "x")>>) }

AppendElement ==
  \E e \in UiKinds :
    /\ Idle
    /\ Len(doc) < MaxUiNodes
    /\ doc' = Append(doc, e)
    /\ last' = NoOp
    /\ UNCHANGED <<href, throttle, quiz, osi, menu, layerCard, uiVars>>

RemoveElement ==
  /\ Idle
  /\ doc # << >>
  /\ doc' = SubSeq(doc, 1, Len(doc) - 1)
  /\ last' = NoOp
  /\ UNCHANGED <<href, throttle, quiz, osi, menu, layerCard, uiVars>>

Init == \E h \in Hrefs : Unloaded(<< >>, h)

Next ==
  \/ DOMContentLoaded
  \/ \E k \in Closures : ClickToggle(k)
  \/ \E k \in Closures : ClickSubmit(k)
  \/ \E k \in Closures : ClickInside(k)
  \/ \E n \in 1..MaxResults : ClickItem(n)
  \/ ClickOutside
  \/ PressEscape
  \/ \E k \in Closures : TypeChar(k)
  \/ \E k \in Closures : Backspace(k)
  \/ RunToggle
  \/ RunPerformSearch
  \/ RunDebounced
  \/ RunEscape
  \/ RunDocClick
  \/ RunItemClick
  \/ Tick
  \/ TimerFire
  \/ AppendElement
  \/ RemoveElement

Spec == Init /\ [][Next]_vars

(***************************************************************************)
(* performSearch applied to a bounded set of documents and input values:   *)
(* the page is loaded, the first container is open and its submit button   *)
(* has just been clicked.                                                  *)
(***************************************************************************)
FilterKinds ==
  { Leaf("h2", <<"A", "b">>, "x"),
    Leaf("h3", <<"b">>, ""),
    Leaf("p", <<"a">>, "") }

FilterDocs == SeqsUpTo(FilterKinds, MaxFilterNodes)

FilterValues ==
  { << >>, <<" ">>, <<"a">>, <<"A">>, <<" ", "A">>, <<"a", " ">>,
    <<"a", "a">>, <<"A", "B">>, <<"b">> }

SubmitClicked(d, v) ==
  /\ loaded = TRUE
  /\ doc = d
  /\ href = <<"page">>
  /\ value = [k \in DOMAIN AfterLoad.value |-> IF k = 1 THEN v ELSE << >>]
  /\ containerActive = [k \in DOMAIN AfterLoad.value |-> k = 1]
  /\ resultsActive = AfterLoad.resultsActive
  /\ innerHTML = << >>
  /\ timers = << >>
  /\ queue = <<Listener("performSearch", 1, InContainer(1))>>
             \o [k \in DOMAIN AfterLoad.value |-> Listener("docClick", k, InContainer(1))]
  /\ last = NoOp
  /\ layerCard = CollapsedCard(<< >>)
  /\ throttle = Throttle(ScrollLimit)
  /\ quiz = NoQuiz
  /\ osi = NoOsiLayers
  /\ menu = ClosedMenu(TRUE)

InitFilter == \E d \in FilterDocs : \E v \in FilterValues : SubmitClicked(d, v)

NextFilter == RunPerformSearch

SpecFilter == InitFilter /\ [][NextFilter]_vars

SearchRan == last.op = "performSearch"

\* q occurs in s
IsSubstring(q, s) ==
  \E i \in 0..(Len(s) - Len(q)) : \A n \in 1..Len(q) : s[i + n] = q[n]

RecordContains(r, q) ==
  IsSubstring(q, ToLowerCase(r.title)) \/ IsSubstring(q, ToLowerCase(r.content))

MatchingIndexes(index, q) == {i \in 1..Len(index) : RecordContains(index[i], q)}

NthOf(M, n) == CHOOSE i \in M : Cardinality({j \in M : j < i}) = n - 1

\* C4: for a non-empty trimmed query, the records handed to the renderer
\* are exactly the first min(5, m) of the m records whose lowercased title
\* or content contains the lowercased query, in index order.
FirstFiveMatches ==
  (SearchRan /\ last.indexed) =>
    LET M == MatchingIndexes(last.searchableContent, last.query)
    IN /\ last.query # << >>
       /\ IsTrimOf(last.query, ToLowerCase(value[1]))
       /\ last.searchableContent = GetSearchableContent(doc, href)
       /\ Len(last.results) = Min(5, Cardinality(M))
       /\ \A n \in 1..Len(last.results) :
            last.results[n] = last.searchableContent[NthOf(M, n)]
       /\ last.results # << >> =>
            /\ Len(innerHTML) = Len(last.results)
            /\ \A n \in 1..Len(innerHTML) : innerHTML[n].url = last.results[n].url

\* more than five records match and a record that does not match precedes
\* one that is returned
FirstFiveMatchesWitness ==
  /\ SearchRan /\ last.indexed
  /\ Cardinality(MatchingIndexes(last.searchableContent, last.query)) > 5
  /\ Len(last.results) = 5
  /\ \E i \in 1..Len(last.searchableContent) :
       /\ ~RecordContains(last.searchableContent[i], last.query)
       /\ \E n \in 1..5 : last.results[n].element[1] > last.searchableContent[i].element[1]

SameLetter(c, d) ==
  \/ c = d
  \/ {c, d} \in {{"a", "A"}, {"b", "B"}, {"l", "L"}, {"n", "N"}}

\* v without the white space before its first and after its last letter
Stripped(v) ==
  LET letters == {i \in 1..Len(v) : v[i] # " "}
  IN IF letters = {} THEN << >>
     ELSE SubSeq(v, CHOOSE i \in letters : \A j \in letters : i <= j,
                    CHOOSE i \in letters : \A j \in letters : i >= j)

\* v and w differ only in letter case and in leading or trailing white space
SameUpToCaseAndPadding(v, w) ==
  /\ Len(Stripped(v)) = Len(Stripped(w))
  /\ \A i \in 1..Len(Stripped(v)) : SameLetter(Stripped(v)[i], Stripped(w)[i])

SwapCaseChar(c) ==
  CASE c = "a" -> "A"
    [] c = "A" -> "a"
    [] c = "b" -> "B"
    [] c = "B" -> "b"
    [] OTHER -> c

SwapCase(s) == [i \in 1..Len(s) |-> SwapCaseChar(s[i])]

\* the records performSearch selects for input value w on the current page
SelectedFor(w) ==
  IF IsEmptyQuery(NormalizeQuery(w)) THEN << >>
  ELSE FilterResults(GetSearchableContent(doc, href), NormalizeQuery(w))

\* C5: filtering is case-insensitive: an input value that differs from the
\* searched one only in letter case and outer white space selects the same
\* records, and changing the letter case of a record's title or content
\* does not change whether the record matches.
FilterIgnoresCase ==
  SearchRan =>
    /\ \A w \in FilterValues :
         SameUpToCaseAndPadding(value[1], w) => SelectedFor(w) = last.results
    /\ \A i \in 1..Len(last.searchableContent) :
         LET r == last.searchableContent[i]
         IN /\ ItemMatches(r, last.query)
                 <=> ItemMatches([r EXCEPT !.title = SwapCase(@)], last.query)
            /\ ItemMatches(r, last.query)
                 <=> ItemMatches([r EXCEPT !.content = SwapCase(@)], last.query)

\* an upper-case, padded input value selected a record through a title
\* that has an upper-case letter
FilterIgnoresCaseWitness ==
  /\ SearchRan
  /\ Len(value[1]) = 2
  /\ value[1] # last.query /\ ToLowerCase(value[1]) # value[1]
  /\ Trim(value[1]) # value[1]
  /\ \E n \in 1..Len(last.results) :
       /\ ToLowerCase(last.results[n].title) # last.results[n].title
       /\ ~IsSubstring(last.query, ToLowerCase(last.results[n].content))

(***************************************************************************)
(* Properties of the search feature under user events and timers.          *)
(***************************************************************************)
IsBlank(v) == \A i \in 1..Len(v) : v[i] = " "

\* the step runs performSearch: as the click listener at the head of the
\* queue, or from a debounce timer that leaves the idle page's timer list
SearchStep ==
  \/ queue # << >> /\ Head(queue).fn = "performSearch" /\ queue' = Tail(queue)
  \/ queue = << >> /\ queue' = << >> /\ Len(timers') < Len(timers)

\* C6: when performSearch runs on an empty or whitespace-only input value,
\* the results panel loses the class active, no index is built and nothing
\* is rendered; on any other value the panel is shown with rendered entries.
BlankQueryHidesPanel ==
  [][SearchStep =>
       IF IsBlank(value[1])
       THEN /\ \A k \in DOMAIN resultsActive' : ~resultsActive'[k]
            /\ innerHTML' = innerHTML
            /\ ~last'.indexed
            /\ last'.searchableContent = << >>
       ELSE /\ resultsActive'[1]
            /\ last'.indexed
            /\ innerHTML' # << >>]_vars

\* a search on a whitespace-only value ran while an earlier rendering was
\* still in the panel
BlankQueryHidesPanelWitness ==
  /\ SearchRan
  /\ value[1] # << >> /\ IsBlank(value[1])
  /\ innerHTML # << >>
  /\ ~last.indexed

\* C7: when performSearch runs with a non-empty trimmed query that matches
\* no record, the results panel is shown and holds exactly one entry, the
\* fixed "no results" message, without a click handler.
NoMatchShowsPlaceholder ==
  (/\ SearchRan
   /\ ~IsBlank(value[1])
   /\ MatchingIndexes(GetSearchableContent(doc, href), Stripped(ToLowerCase(value[1]))) = {})
  => /\ resultsActive[1]
     /\ Len(innerHTML) = 1
     /\ innerHTML[1].title = <<"No se encontraron resultados">>
     /\ innerHTML[1].handler = FALSE

\* the page has headings, none of which matches the query
NoMatchShowsPlaceholderWitness ==
  /\ SearchRan
  /\ last.indexed
  /\ last.searchableContent # << >>
  /\ last.results = << >>

\* C8: the debounced search runs only for the last input event of a burst,
\* at most one debounce timer is pending for the search input at any time,
\* and each input event cancels the pending timer and starts a new one.
OnePendingDebounceTimer ==
  /\ Len(timers) <= 1
  /\ (SearchRan /\ last.via = "timer") => last.latest
  /\ last.op = "debounced" =>
       \E i \in 1..Len(timers) :
         /\ timers[i].owner = last.k /\ timers[i].left = DebounceWait
         /\ \A j \in 1..Len(timers) : timers[j].owner = last.k => j = i

\* C9: a click on a submit button runs the search within the click
\* listener, on the current value of the input of that button's container,
\* whether or not a debounce timer is pending.
SubmitSearchesCurrentValue ==
  (SearchRan /\ last.via = "click") =>
    /\ last.query = NormalizeQuery(value[last.k])
    /\ ~IsBlank(value[last.k]) => last.indexed /\ resultsActive[1]

DocClickStep == loaded /\ queue # << >> /\ Head(queue).fn = "docClick" /\ queue' = Tail(queue)

\* C11: the outside-click listener closes its search container and the
\* results panel when the click target is outside every container and
\* toggle, and a click inside a container or on a toggle never makes an
\* outside-click listener close that container or its results panel.
OutsideClickClosesOnlyOutside ==
  [][DocClickStep =>
       LET target == Head(queue).target
           k == Head(queue).k
       IN /\ target = Outside =>
               /\ ~containerActive'[k]
               /\ \A j \in DOMAIN resultsActive : ~resultsActive'[j]
          /\ target.part \in {"container", "toggle"} =>
               /\ containerActive'[target.k] = containerActive[target.k]
               /\ resultsActive'[target.k] = resultsActive[target.k]]_vars

\* the click listener of a rendered result runs as this step
ItemStep == loaded /\ queue # << >> /\ Head(queue).fn = "item" /\ queue' = Tail(queue)

\* the records of the page whose url is the data-url of the n-th entry
RecordsOf(n) ==
  LET index == GetSearchableContent(doc, href)
  IN {i \in 1..Len(index) : index[i].url = innerHTML[n].url}

\* the id of the heading of a record, taken from the record's url
AnchorId(url) ==
  IF Len(url) = Len(href) + 2 THEN url[Len(url)] ELSE ""

\* C12: activating a rendered result whose heading has an id that resolves
\* to an element closes the results panel and the search container and
\* requests a smooth scroll that puts the heading of that record 80 pixels
\* below the top of the viewport, whatever the address of the page is.
ItemClickScrollsToHeading ==
  [][ItemStep =>
       LET n == Head(queue).k
           index == GetSearchableContent(doc, href)
       IN \A i \in RecordsOf(n) :
            (/\ ElementAt(doc, index[i].element).id # ""
             /\ GetElementById(doc, ElementAt(doc, index[i].element).id) # << >>)
            => /\ last'.scrollTo = [element |-> index[i].element,
                                     offset |-> ScrollOffset, behavior |-> "smooth"]
               /\ ~resultsActive'[FirstOf(resultsActive)]
               /\ ~containerActive'[FirstOf(containerActive)]]_vars

\* C13: activating a rendered result whose heading id is empty, or resolves
\* to no element of the page, changes nothing: no scroll request is made
\* and the search container and the results panel keep their state.
ItemClickWithoutAnchorDoesNothing ==
  [][ItemStep =>
       LET id == AnchorId(innerHTML[Head(queue).k].url)
       IN (id = "" \/ GetElementById(doc, id) = << >>)
          => /\ last'.scrollTo = << >>
             /\ UNCHANGED <<containerActive, resultsActive>>]_vars

(***************************************************************************)
(* Search.highlightQuery (lines 720-724) applied to a bounded set of texts *)
(* and queries of literal characters.                                      *)
(***************************************************************************)
MaxTextLen == 4
MaxPatternLen == 2

HighlightChars == {"a", "A", "b"}

ExampleText == <<"N", "e", "t", "w", "o", "r", "k", " ", "L", "a", "y", "e", "r">>
ExampleQuery == <<"n", "e", "t">>

HighlightTexts == SeqsUpTo(HighlightChars, MaxTextLen) \cup {ExampleText}
HighlightQueries == SeqsUpTo(HighlightChars, MaxPatternLen) \cup {ExampleQuery}

\* the arguments of a call that is about to be made
Arguments(text, query) ==
  /\ loaded = FALSE
  /\ doc = << >> /\ href = <<"page">>
  /\ value = << >> /\ containerActive = << >> /\ resultsActive = << >>
  /\ innerHTML = << >> /\ timers = << >> /\ queue = << >>
  /\ last = [NoOp EXCEPT !.text = text, !.query = query]
  /\ layerCard = CollapsedCard(<< >>)
  /\ throttle = Throttle(ScrollLimit)
  /\ quiz = NoQuiz
  /\ osi = NoOsiLayers
  /\ menu = ClosedMenu(TRUE)

InitHighlight == \E t \in HighlightTexts : \E q \in HighlightQueries : Arguments(t, q)

\* one call of Search.highlightQuery(text, query)
HighlightQueryCall ==
  /\ last.op = "none"
  /\ last' = [last EXCEPT !.op = "highlightQuery",
                          !.html = HighlightQuery(last.text, last.query)]
  /\ UNCHANGED <<doc, href, throttle, quiz, osi, menu, layerCard, uiVars>>

NextHighlight == HighlightQueryCall

SpecHighlight == InitHighlight /\ [][NextHighlight]_vars

\* the offsets at which the query occurs in the text, letter case ignored
Occurrences(text, q) ==
  {i \in 1..(Len(text) - Len(q) + 1) :
     \A j \in 1..Len(q) : SameLetter(text[i + j - 1], q[j])}

\* S holds the occurrences found by a scan from left to right that
\* continues after each occurrence it finds
LeftToRightDisjoint(S, occ, n) ==
  /\ \A i, j \in S : i < j => i + n <= j
  /\ \A i \in occ \ S : \E j \in S : j < i /\ i < j + n

\* the text with the n characters at each offset of S wrapped in mark tags
Wrap(text, S, n) ==
  Flatten([i \in 1..Len(text) |->
             (IF i \in S THEN <<"<mark>">> ELSE << >>)
             \o <<text[i]>>
             \o (IF i - n + 1 \in S THEN <<"</mark>">> ELSE << >>)])

\* C14: for a non-empty query of literal characters highlightQuery returns
\* the text with every occurrence of the query, letter case ignored, found
\* by a left-to-right scan without overlaps wrapped in <mark>...</mark>,
\* each character as in the text; "Network Layer" with "net" gives
\* "<mark>Net</mark>work Layer"; an empty query returns the text unchanged.
HighlightWrapsEveryOccurrence ==
  last.op = "highlightQuery" =>
    /\ IF last.query = << >> THEN last.html = last.text
       ELSE \E S \in SUBSET Occurrences(last.text, last.query) :
              /\ LeftToRightDisjoint(S, Occurrences(last.text, last.query), Len(last.query))
              /\ last.html = Wrap(last.text, S, Len(last.query))
    /\ (last.text = ExampleText /\ last.query = ExampleQuery) =>
         last.html = <<"<mark>", "N", "e", "t", "</mark>">> \o SubSeq(ExampleText, 4, 13)

\* two occurrences are wrapped, a third one overlaps the first and is not,
\* and the text differs from the query in letter case
HighlightWrapsEveryOccurrenceWitness ==
  /\ last.op = "highlightQuery"
  /\ Len(last.query) > 1
  /\ Cardinality(Occurrences(last.text, last.query)) > 2
  /\ Len(SelectSeq(last.html, LAMBDA c : c = "<mark>")) = 2
  /\ ~Includes(last.text, last.query)

(***************************************************************************)
(* performSearch applied to pages whose only section has a content of      *)
(* about SnippetLen characters, the query occurring near its end.          *)
(***************************************************************************)
MaxSnippetTail == 3

Filler(n) == [i \in 1..n |-> "c"]

SnippetContents ==
  { Filler(n) \o t : n \in (SnippetLen - MaxSnippetTail)..(SnippetLen + 1),
                     t \in SeqsUpTo({"a", "A"}, MaxSnippetTail) }

SnippetPage(content) == <<Leaf("h2", <<"t">>, "x"), Leaf("p", content, "")>>

SnippetValues == { <<"a">>, <<"A", "a">> }

InitSnippet ==
  \E c \in SnippetContents : \E v \in SnippetValues : SubmitClicked(SnippetPage(c), v)

NextSnippet == RunPerformSearch

SpecSnippet == InitSnippet /\ [][NextSnippet]_vars

\* the markup without its mark tags
WithoutMarks(html) == SelectSeq(html, LAMBDA c : c \notin {"<mark>", "</mark>"})

\* C15: the snippet of a rendered result is the first 150 characters of the
\* record's content followed by "...", and the query is highlighted in that
\* truncated text: an occurrence that ends after character 150 of the
\* content is not wrapped, even though it made the record match.
SnippetTruncatedBeforeHighlight ==
  (SearchRan /\ last.results # << >>) =>
    \A n \in 1..Len(last.results) :
      LET truncated == SubSeq(last.results[n].content, 1,
                              Min(SnippetLen, Len(last.results[n].content)))
                       \o <<".", ".", ".">>
          occ == Occurrences(truncated, last.query)
      IN /\ WithoutMarks(innerHTML[n].snippet) = truncated
         /\ \E S \in SUBSET occ :
              /\ LeftToRightDisjoint(S, occ, Len(last.query))
              /\ \A i \in S : i + Len(last.query) - 1 <= SnippetLen
              /\ innerHTML[n].snippet = Wrap(truncated, S, Len(last.query))

\* the record matched only through an occurrence that ends after
\* character 150 of a content longer than that: its snippet has no mark
SnippetTruncatedBeforeHighlightWitness ==
  /\ SearchRan /\ Len(last.results) = 1
  /\ Len(last.results[1].content) > SnippetLen
  /\ Occurrences(last.results[1].content, last.query) # { }
  /\ \A i \in Occurrences(last.results[1].content, last.query) :
       i + Len(last.query) - 1 > SnippetLen
  /\ innerHTML[1].snippet = WithoutMarks(innerHTML[1].snippet)

\* C16: whatever document changes, keystrokes, submit clicks and timer
\* expiries came before, a search that runs on a non-blank query indexes
\* the document as it is when the search runs (one record per heading now
\* in the document) and renders the first five of those records that
\* contain the query; nothing of an earlier index is reused.
SearchUsesCurrentDocument ==
  (SearchRan /\ last.indexed) =>
    LET index == last.searchableContent
        M == MatchingIndexes(index, last.query)
    IN /\ Len(index) = Cardinality(HeadingPositions(doc))
       /\ \A i \in 1..Len(index) :
            /\ index[i].element = NthHeading(doc, i)
            /\ IsTrimOf(index[i].title, TextContent(ElementAt(doc, NthHeading(doc, i))))
       /\ Len(last.results) = Min(MaxResults, Cardinality(M))
       /\ \A n \in 1..Len(last.results) : last.results[n] = index[NthOf(M, n)]
       /\ IF M = { }
          THEN Len(innerHTML) = 1 /\ ~innerHTML[1].handler
          ELSE /\ Len(innerHTML) = Len(last.results)
               /\ \A n \in 1..Len(innerHTML) :
                    /\ innerHTML[n].url = last.results[n].url
                    /\ WithoutMarks(innerHTML[n].title) = last.results[n].title

\* the debounce timer of the second closure, which expires after the
\* first closure's search has run, finds records in a page that had no
\* heading when it was loaded
SearchUsesCurrentDocumentWitness ==
  /\ SearchRan /\ last.indexed
  /\ last.via = "timer" /\ last.k = 2
  /\ last.results # << >>

\* performSearch runs as the click listener of a submit button
ClickSearchStep ==
  loaded /\ queue # << >> /\ Head(queue).fn = "performSearch" /\ queue' = Tail(queue)

\* C17: a click on the submit button cancels no debounce timer (only the
\* debounced input listener of a later keystroke does); when it comes
\* while the timer of the last keystroke is pending, the search runs in
\* the click and once more, when that one pending timer expires.
SubmitKeepsThePendingTimer ==
  [][/\ (loaded /\ queue # << >> /\ Head(queue).fn # "debounced") => timers' = timers
     /\ (ClickSearchStep /\ timers # << >>) => Len(timers') = 1]_vars

\* C18: once DOMContentLoaded has been dispatched Search.init has run
\* exactly once: the page has one search input, one toggle button and one
\* results container, and an input event runs one debounced listener.
SearchInitRunsOnce ==
  loaded =>
    /\ Len(value) = 1
    /\ Len(containerActive) = 1
    /\ Len(resultsActive) = 1
    /\ Len(SelectSeq(queue, LAMBDA l : l.fn = "debounced")) <= 1

\* C19: whenever no listener is running, a results panel carries the class
\* active only if the search container around it carries it too.
ResultsShownOnlyInOpenPanel ==
  queue = << >> =>
    \A k \in DOMAIN resultsActive : resultsActive[k] => containerActive[k]

(***************************************************************************)
(* window.toggleLayer (lines 779-822) called on one layer card, and the    *)
(* timeouts of its collapse animation.  "-" stands for the minus sign      *)
(* U+2212 the button shows when the layer is expanded.                     *)
(***************************************************************************)
MaxLayerTimeouts == 3

LayerStep == CollapseDelay \div 3

LayerTitles == { << >>, <<"Fisica">> }

InitLayer ==
  \E title \in LayerTitles :
    /\ loaded = FALSE
    /\ doc = << >> /\ href = <<"page">>
    /\ value = << >> /\ containerActive = << >> /\ resultsActive = << >>
    /\ innerHTML = << >> /\ timers = << >> /\ queue = << >>
    /\ last = NoOp
    /\ layerCard = CollapsedCard(title)
    /\ throttle = Throttle(ScrollLimit)
    /\ quiz = NoQuiz
    /\ osi = NoOsiLayers
    /\ menu = ClosedMenu(TRUE)

\* lines 779-822; the card has its .layer-details and its .layer-toggle
ToggleLayer ==
  /\ layerCard.hidden \/ Len(layerCard.timeouts) < MaxLayerTimeouts
  /\ LET isExpanded == ~layerCard.hidden
         layerTitle == IF layerCard.title # << >> THEN layerCard.title ELSE <<"capa">>
     IN layerCard' =
          IF ~isExpanded
          THEN [layerCard EXCEPT !.hidden = FALSE,
                                 !.textContent = "-",
                                 !.ariaExpanded = "true",
                                 !.ariaLabel = <<"Contraer">> \o layerTitle,
                                 !.transition = "max-height 0.3s ease, opacity 0.3s ease",
                                 !.maxHeight = "scrollHeight",
                                 !.opacity = "1"]
          ELSE [layerCard EXCEPT !.hidden = TRUE,
                                 !.textContent = "+",
                                 !.ariaExpanded = "false",
                                 !.ariaLabel = <<"Expandir">> \o layerTitle,
                                 !.transition = "max-height 0.3s ease, opacity 0.3s ease",
                                 !.maxHeight = "0",
                                 !.opacity = "0",
                                 !.timeouts = Append(@, CollapseDelay)]
  /\ UNCHANGED <<doc, href, throttle, quiz, osi, menu, last, uiVars>>

\* time passes while no timeout of the card is due
LayerTick ==
  /\ layerCard.timeouts # << >>
  /\ \A i \in 1..Len(layerCard.timeouts) : layerCard.timeouts[i] > 0
  /\ layerCard' = [layerCard EXCEPT
                     !.timeouts = [i \in 1..Len(@) |-> @[i] - LayerStep]]
  /\ UNCHANGED <<doc, href, throttle, quiz, osi, menu, last, uiVars>>

\* lines 815-820: the callback of the oldest due timeout
LayerTimeout ==
  /\ layerCard.timeouts # << >>
  /\ Head(layerCard.timeouts) <= 0
  /\ layerCard' = [layerCard EXCEPT !.hidden = TRUE,
                                    !.maxHeight = "",
                                    !.opacity = "",
                                    !.transition = "",
                                    !.timeouts = Tail(@)]
  /\ UNCHANGED <<doc, href, throttle, quiz, osi, menu, last, uiVars>>

NextLayer == ToggleLayer \/ LayerTick \/ LayerTimeout

SpecLayer == InitLayer /\ [][NextLayer]_vars

\* C20: once no collapse timeout is pending, the details are hidden exactly
\* when the button reports collapsed (aria-expanded "false", text "+") and
\* shown exactly when it reports expanded (aria-expanded "true", text "-").
LayerMatchesItsButton ==
  layerCard.timeouts = << >> =>
    /\ layerCard.hidden <=>
         (layerCard.ariaExpanded = "false" /\ layerCard.textContent = "+")
    /\ ~layerCard.hidden <=>
         (layerCard.ariaExpanded = "true" /\ layerCard.textContent = "-")

(***************************************************************************)
(* The mobile menu.  Navigation.init and Accessibility.init run in the     *)
(* DOMContentLoaded listeners of lines 433 and 971, the listener of line   *)
(* 1037 binds openMenu and closeMenu; listeners run in registration order. *)
(***************************************************************************)
MaxFocusTimeouts == 4

\* the click listeners of the hamburger button each DOMContentLoaded
\* listener registers: lines 90-92 and 348-356, or lines 1057-1060
HamburgerListenersOf(l) ==
  IF l.searchInit THEN <<"toggleMobileMenu", "focusFirstLink">>
  ELSE <<"hamburgerClick">>

\* the click listeners of a nav link: lines 95-97, or line 1062
NavLinkListenersOf(l) ==
  IF l.searchInit THEN <<"closeMobileMenu">> ELSE <<"closeMenu">>

\* the click listeners of document: lines 100-108, or lines 1064-1066
MenuDocClickListenersOf(l) ==
  IF l.searchInit THEN <<"navigationDocClick">> ELSE <<"menuDocClick">>

\* the keydown listeners of document: lines 110-114, or line 1068
MenuKeydownListenersOf(l) ==
  IF l.searchInit THEN <<"closeMobileMenu">> ELSE <<"closeMenu">>

\* the click listeners of the overlay: lines 117-119
OverlayListenersOf(l) ==
  IF l.searchInit THEN <<"closeMobileMenu">> ELSE << >>

\* the listeners all DOMContentLoaded listeners registered on target, in
\* order; perInit[i] are those of the i-th DOMContentLoaded listener
Registered(perInit, target) ==
  LET fns == Flatten(perInit)
  IN [i \in 1..Len(fns) |-> Listener(fns[i], 0, target)]

Inits == 1..Len(DOMContentLoadedListeners)

HamburgerListeners(target) ==
  Registered([i \in Inits |-> HamburgerListenersOf(DOMContentLoadedListeners[i])], target)

NavLinkListeners(target) ==
  Registered([i \in Inits |-> NavLinkListenersOf(DOMContentLoadedListeners[i])], target)

OverlayListeners(target) ==
  Registered([i \in Inits |-> OverlayListenersOf(DOMContentLoadedListeners[i])], target)

MenuDocClickListeners(target) ==
  Registered([i \in Inits |-> MenuDocClickListenersOf(DOMContentLoadedListeners[i])], target)

MenuKeydownListeners(target) ==
  Registered([i \in Inits |-> MenuKeydownListenersOf(DOMContentLoadedListeners[i])], target)

DocumentLevel == {"navigationDocClick", "menuDocClick"}

MenuOpen == menu.hamburgerActive /\ menu.navMenuActive

\* an event reaches the page: the listeners of the target, then those of
\* document
MenuEvent(event, listeners) ==
  /\ Idle
  /\ queue' = listeners
  /\ menu' = [menu EXCEPT !.event = event, !.wasOpen = MenuOpen]
  /\ UNCHANGED <<loaded, doc, href, throttle, quiz, osi, value, containerActive, resultsActive, innerHTML,
                 timers, last, layerCard>>

ClickHamburger ==
  /\ Len(menu.timeouts) + 2 <= MaxFocusTimeouts
  /\ MenuEvent("hamburger", HamburgerListeners("hamburger")
                            \o MenuDocClickListeners("hamburger"))

ClickNavLink ==
  MenuEvent("navLink", NavLinkListeners("navMenu")
                       \o MenuDocClickListeners("navMenu"))

ClickOverlay ==
  /\ menu.hasOverlay
  /\ MenuEvent("overlay", OverlayListeners("overlay")
                          \o MenuDocClickListeners("overlay"))

ClickOutsideMenu ==
  MenuEvent("outside", MenuDocClickListeners("outside"))

PressEscapeMenu ==
  MenuEvent("Escape", MenuKeydownListeners("outside"))

RunMenuListener(fn, m) ==
  /\ Running(fn)
  /\ menu' = m
  /\ queue' = Tail(queue)
  /\ UNCHANGED <<loaded, doc, href, throttle, quiz, osi, value, containerActive, resultsActive, innerHTML,
                 timers, last, layerCard>>

\* lines 122-133; the hamburger and the nav menu exist
ToggleMobileMenu(m) ==
  LET isActive == m.hamburgerActive
  IN [m EXCEPT !.hamburgerActive = ~@,
               !.navMenuActive = ~@,
               !.overlayActive = IF m.hasOverlay THEN ~@ ELSE @,
               !.ariaExpanded = IF ~isActive THEN "true" ELSE "false",
               !.overflow = IF isActive THEN "" ELSE "hidden"]

\* lines 135-143
CloseMobileMenu(m) ==
  [m EXCEPT !.hamburgerActive = FALSE,
            !.navMenuActive = FALSE,
            !.overlayActive = FALSE,
            !.ariaExpanded = "false",
            !.overflow = ""]

\* lines 1044-1049
OpenMenu(m) ==
  [m EXCEPT !.hamburgerActive = TRUE,
            !.navMenuActive = TRUE,
            !.ariaExpanded = "true",
            !.overflow = "hidden"]

\* a closeMenu that leaves the scroll lock of the body
CloseMenu_KeepScrollLock(m) ==
  [m EXCEPT !.hamburgerActive = FALSE,
            !.navMenuActive = FALSE,
            !.ariaExpanded = "false"]

\* lines 1051-1056
CloseMenu(m) ==
  [m EXCEPT !.hamburgerActive = FALSE,
            !.navMenuActive = FALSE,
            !.ariaExpanded = "false",
            !.overflow = ""]

\* lines 90-92
RunToggleMobileMenu == RunMenuListener("toggleMobileMenu", ToggleMobileMenu(menu))

\* lines 95-97, 110-114 and 117-119
RunCloseMobileMenu == RunMenuListener("closeMobileMenu", CloseMobileMenu(menu))

\* lines 100-108
RunNavigationDocClick ==
  RunMenuListener("navigationDocClick",
                  IF Head(queue).target \notin {"hamburger", "navMenu", "overlay"}
                  THEN CloseMobileMenu(menu) ELSE menu)

\* lines 348-356: the listener only sets a timeout
RunFocusFirstLink ==
  RunMenuListener("focusFirstLink", [menu EXCEPT !.timeouts = Append(@, FocusDelay)])

NotDocumentLevel(l) == l.fn \notin DocumentLevel

\* lines 1057-1060; after stopPropagation the click does not reach document
RunHamburgerClick ==
  /\ Running("hamburgerClick")
  /\ menu' = IF menu.hamburgerActive THEN CloseMenu(menu) ELSE OpenMenu(menu)
  /\ queue' = SelectSeq(Tail(queue), NotDocumentLevel)
  /\ UNCHANGED <<loaded, doc, href, throttle, quiz, osi, value, containerActive, resultsActive, innerHTML,
                 timers, last, layerCard>>

\* lines 1062 and 1068
RunCloseMenu == RunMenuListener("closeMenu", CloseMenu(menu))

\* lines 1064-1066
RunMenuDocClick ==
  RunMenuListener("menuDocClick",
                  IF Head(queue).target \notin {"hamburger", "navMenu"}
                  THEN CloseMenu(menu) ELSE menu)

FocusStep == FocusDelay \div 2

\* time passes while no focus timeout is due
MenuTick ==
  /\ Idle
  /\ menu.timeouts # << >>
  /\ \A i \in 1..Len(menu.timeouts) : menu.timeouts[i] > 0
  /\ menu' = [menu EXCEPT !.timeouts = [i \in 1..Len(@) |-> @[i] - FocusStep]]
  /\ UNCHANGED <<loaded, doc, href, throttle, quiz, osi, value, containerActive, resultsActive, innerHTML,
                 timers, queue, last, layerCard>>

\* lines 349-354: the callback of the oldest due timeout
FocusTimeout ==
  /\ Idle
  /\ menu.timeouts # << >>
  /\ Head(menu.timeouts) <= 0
  /\ menu' = [menu EXCEPT !.focused = IF menu.navMenuActive THEN TRUE ELSE @,
                          !.timeouts = Tail(@)]
  /\ UNCHANGED <<loaded, doc, href, throttle, quiz, osi, value, containerActive, resultsActive, innerHTML,
                 timers, queue, last, layerCard>>

InitMenu ==
  \E hasOverlay \in BOOLEAN :
    /\ loaded = FALSE
    /\ doc = << >> /\ href = <<"page">>
    /\ value = << >> /\ containerActive = << >> /\ resultsActive = << >>
    /\ innerHTML = << >> /\ timers = << >> /\ queue = << >>
    /\ last = NoOp
    /\ layerCard = CollapsedCard(<< >>)
    /\ throttle = Throttle(ScrollLimit)
    /\ quiz = NoQuiz
    /\ osi = NoOsiLayers
    /\ menu = ClosedMenu(hasOverlay)

NextMenu ==
  \/ DOMContentLoaded
  \/ ClickHamburger
  \/ ClickNavLink
  \/ ClickOverlay
  \/ ClickOutsideMenu
  \/ PressEscapeMenu
  \/ RunToggleMobileMenu
  \/ RunCloseMobileMenu
  \/ RunNavigationDocClick
  \/ RunFocusFirstLink
  \/ RunHamburgerClick
  \/ RunCloseMenu
  \/ RunMenuDocClick
  \/ MenuTick
  \/ FocusTimeout

SpecMenu == InitMenu /\ [][NextMenu]_vars

\* the four signs of an open menu agree
MenuAgrees ==
  /\ menu.navMenuActive = menu.hamburgerActive
  /\ (menu.ariaExpanded = "true") = menu.hamburgerActive
  /\ (menu.overflow = "hidden") = menu.hamburgerActive

\* C21: once the page is loaded and an event has been dispatched to all its
\* listeners, the hamburger's active class, the nav menu's active class,
\* aria-expanded and the body's scroll lock agree; a click on the hamburger
\* has flipped the menu, and Escape, a nav-link click and an outside click
\* have left it closed.
HamburgerFlipsAndSignsAgree ==
  Idle =>
    /\ MenuAgrees
    /\ menu.event = "hamburger" => MenuOpen = ~menu.wasOpen
    /\ menu.event \in {"Escape", "navLink", "outside"} => ~MenuOpen

\* a second click on the hamburger has closed the menu it had opened
HamburgerFlipsAndSignsAgreeWitness ==
  /\ Idle
  /\ menu.event = "hamburger"
  /\ menu.wasOpen
  /\ ~MenuOpen
  /\ menu.ariaExpanded = "false" /\ menu.overflow = ""

\* C22: once an event has been dispatched to all its listeners, the overlay
\* carries the active class exactly when the mobile menu is open.
OverlayActiveIffMenuOpen ==
  (Idle /\ menu.hasOverlay) => (menu.overlayActive = MenuOpen)

(***************************************************************************)
(* window.toggleOSILayer on a page of OSI layer cards, each with its       *)
(* .osi-layer-details and its .osi-layer-toggle.                           *)
(***************************************************************************)
MaxOsiLayers == 4

\* a card as the markup has it: collapsed, or the one expanded card
OsiCard(expanded) ==
  [hidden |-> ~expanded,
   fadeIn |-> FALSE,
   active |-> expanded,
   textContent |-> IF expanded THEN "-" ELSE "+"]

\* pages of up to MaxOsiLayers cards with at most one of them expanded
OsiPages ==
  { [i \in 1..n |-> OsiCard(i = e)] : n \in 1..MaxOsiLayers, e \in 0..MaxOsiLayers }

InitOsi ==
  \E cards \in OsiPages :
    /\ loaded = FALSE
    /\ doc = << >> /\ href = <<"page">>
    /\ value = << >> /\ containerActive = << >> /\ resultsActive = << >>
    /\ innerHTML = << >> /\ timers = << >> /\ queue = << >>
    /\ last = NoOp
    /\ layerCard = CollapsedCard(<< >>)
    /\ throttle = Throttle(ScrollLimit)
    /\ quiz = NoQuiz
    /\ menu = ClosedMenu(TRUE)
    /\ osi = [NoOsiLayers EXCEPT !.cards = cards]

\* a toggleOSILayer that opens a layer without closing the others
ToggleOSILayer_KeepOthers(cards, element) ==
  IF cards[element].hidden
  THEN [cards EXCEPT ![element] = [hidden |-> FALSE, fadeIn |-> TRUE,
                                   active |-> TRUE, textContent |-> "-"]]
  ELSE [cards EXCEPT ![element] = [@ EXCEPT !.hidden = TRUE,
                                            !.active = FALSE,
                                            !.textContent = "+"]]

\* lines 930-957: the cards after the call on the card number element
ToggleOSILayer(cards, element) ==
  IF cards[element].hidden
  THEN [i \in DOMAIN cards |->
          IF i = element
          THEN [hidden |-> FALSE, fadeIn |-> TRUE,
                active |-> TRUE, textContent |-> "-"]
          ELSE [cards[i] EXCEPT !.hidden = TRUE,
                                !.active = FALSE,
                                !.textContent = "+"]]
  ELSE [cards EXCEPT ![element] = [@ EXCEPT !.hidden = TRUE,
                                            !.active = FALSE,
                                            !.textContent = "+"]]

ToggleOSILayerCall ==
  \E element \in DOMAIN osi.cards :
    /\ osi' = [cards |-> ToggleOSILayer(osi.cards, element),
               element |-> element,
               before |-> osi.cards]
    /\ UNCHANGED <<loaded, doc, href, throttle, quiz, value, containerActive, resultsActive, innerHTML,
                   timers, queue, last, layerCard, menu>>

NextOsi == ToggleOSILayerCall

SpecOsi == InitOsi /\ [][NextOsi]_vars

OsiVisible == {i \in DOMAIN osi.cards : ~osi.cards[i].hidden}

\* C23: at most one layer's details are visible; a call on a collapsed
\* layer has left that layer as the only visible one, a call on the
\* expanded layer has collapsed it; and a card has osi-layer-active and the
\* minus sign as its toggle text exactly when its details are visible.
OneOsiLayerAtATime ==
  /\ Cardinality(OsiVisible) <= 1
  /\ osi.element # 0 =>
       IF osi.before[osi.element].hidden
       THEN OsiVisible = {osi.element}
       ELSE osi.cards[osi.element].hidden
  /\ \A i \in DOMAIN osi.cards :
       /\ osi.cards[i].active <=> i \in OsiVisible
       /\ osi.cards[i].textContent = "-" <=> i \in OsiVisible

\* a call on a collapsed layer while another one was expanded
OneOsiLayerAtATimeWitness ==
  /\ osi.element # 0
  /\ osi.before[osi.element].hidden
  /\ \E j \in DOMAIN osi.before : ~osi.before[j].hidden
  /\ OsiVisible = {osi.element}

(***************************************************************************)
(* window.checkAnswer on a page of quiz options.  Each option is a button  *)
(* whose onclick calls checkAnswer(this, isCorrect) with its own literal   *)
(* isCorrect; a disabled button receives no click.                         *)
(***************************************************************************)
MaxQuizOptions == 3
MaxQuizTimeouts == 2

\* an option as the markup has it; isCorrect is the literal in its onclick
QuizOption(isCorrect) ==
  [isCorrect |-> isCorrect, disabled |-> FALSE, correct |-> FALSE, incorrect |-> FALSE]

QuizPages ==
  { [NoQuiz EXCEPT !.options = [i \in 1..n |-> QuizOption(i \in right)],
                   !.hasFeedback = f] :
      n \in 1..MaxQuizOptions, right \in SUBSET (1..MaxQuizOptions), f \in BOOLEAN }

InitQuiz ==
  \E q \in QuizPages :
    /\ loaded = FALSE
    /\ doc = << >> /\ href = <<"page">>
    /\ value = << >> /\ containerActive = << >> /\ resultsActive = << >>
    /\ innerHTML = << >> /\ timers = << >> /\ queue = << >>
    /\ last = NoOp
    /\ layerCard = CollapsedCard(<< >>)
    /\ throttle = Throttle(ScrollLimit)
    /\ menu = ClosedMenu(TRUE)
    /\ osi = NoOsiLayers
    /\ quiz = q

\* line 850: option.onclick.toString().includes("true")
OnclickIncludesTrue(option) == option.isCorrect

\* a checkAnswer that leaves the options enabled
CheckAnswer_KeepEnabled(q, button, isCorrect) ==
  IF ~q.hasFeedback THEN q
  ELSE [q EXCEPT
          !.options = [i \in DOMAIN q.options |->
             [q.options[i] EXCEPT
                !.correct = IF isCorrect THEN i = button
                            ELSE OnclickIncludesTrue(q.options[i]),
                !.incorrect = ~isCorrect /\ i = button]],
          !.feedbackHTML = IF isCorrect THEN "feedback-correct" ELSE "feedback-incorrect",
          !.feedbackHidden = FALSE,
          !.timeouts = Append(@, ResetDelay),
          !.button = button, !.op = "checkAnswer"]

\* lines 824-875: the quiz after checkAnswer(button, isCorrect), button the
\* number of a quiz option
CheckAnswer(q, button, isCorrect) ==
  IF ~q.hasFeedback THEN q
  ELSE [q EXCEPT
          !.options = [i \in DOMAIN q.options |->
             [q.options[i] EXCEPT
                !.disabled = TRUE,
                !.correct = IF isCorrect THEN i = button
                            ELSE OnclickIncludesTrue(q.options[i]),
                !.incorrect = ~isCorrect /\ i = button]],
          !.feedbackHTML = IF isCorrect THEN "feedback-correct" ELSE "feedback-incorrect",
          !.feedbackHidden = FALSE,
          !.timeouts = Append(@, ResetDelay),
          !.button = button, !.op = "checkAnswer"]

\* a click on an enabled option runs its onclick
ClickQuizOption ==
  \E button \in DOMAIN quiz.options :
    /\ ~quiz.options[button].disabled
    /\ Len(quiz.timeouts) < MaxQuizTimeouts
    /\ quiz' = CheckAnswer(quiz, button, quiz.options[button].isCorrect)
    /\ UNCHANGED <<loaded, doc, href, throttle, value, containerActive, resultsActive, innerHTML,
                   timers, queue, last, layerCard, menu, osi>>

QuizStep == ResetDelay \div 5

\* time passes while no reset timeout is due
QuizTick ==
  /\ quiz.timeouts # << >>
  /\ \A i \in 1..Len(quiz.timeouts) : quiz.timeouts[i] > 0
  /\ quiz' = [quiz EXCEPT !.timeouts = [i \in 1..Len(@) |-> @[i] - QuizStep]]
  /\ UNCHANGED <<loaded, doc, href, throttle, value, containerActive, resultsActive, innerHTML,
                 timers, queue, last, layerCard, menu, osi>>

\* lines 867-874: the callback of the oldest due timeout
QuizTimeout ==
  /\ quiz.timeouts # << >>
  /\ Head(quiz.timeouts) <= 0
  /\ quiz' = [quiz EXCEPT
                !.options = [i \in DOMAIN quiz.options |->
                   [quiz.options[i] EXCEPT !.disabled = FALSE, !.correct = FALSE,
                                           !.incorrect = FALSE]],
                !.feedbackHidden = TRUE,
                !.feedbackHTML = "",
                !.timeouts = Tail(@),
                !.op = "reset"]
  /\ UNCHANGED <<loaded, doc, href, throttle, value, containerActive, resultsActive, innerHTML,
                 timers, queue, last, layerCard, menu, osi>>

NextQuiz == ClickQuizOption \/ QuizTick \/ QuizTimeout

SpecQuiz == InitQuiz /\ [][NextQuiz]_vars

\* time passes and a due timeout runs its callback
SpecQuizFair == SpecQuiz /\ WF_vars(QuizTick) /\ WF_vars(QuizTimeout)

QuizAnswered ==
  /\ \A i \in DOMAIN quiz.options : quiz.options[i].disabled
  /\ ~quiz.feedbackHidden

QuizReset ==
  /\ \A i \in DOMAIN quiz.options :
       ~quiz.options[i].disabled /\ ~quiz.options[i].correct /\ ~quiz.options[i].incorrect
  /\ quiz.feedbackHidden
  /\ quiz.feedbackHTML = ""

\* C24: from checkAnswer until the reset timeout fires every quiz option is
\* disabled and the feedback is visible; the timeout eventually fires; and
\* when it has fired every option is enabled and carries neither correct
\* nor incorrect, and the feedback is hidden and empty.
QuizResetsAfterAnswer ==
  /\ [](quiz.op = "checkAnswer" => quiz.timeouts # << >> /\ QuizAnswered)
  /\ (quiz.op = "checkAnswer") ~> (quiz.op = "reset")
  /\ [](quiz.op = "reset" => QuizReset)

\* the reset timeout of a wrong answer has fired
QuizResetsAfterAnswerWitness ==
  /\ quiz.op = "reset"
  /\ quiz.button # 0
  /\ ~quiz.options[quiz.button].isCorrect
  /\ QuizReset

(***************************************************************************)
(* A function returned by utils.throttle, called at any moments.           *)
(***************************************************************************)
MaxThrottleCalls == 5

InitThrottle ==
  /\ loaded = FALSE
  /\ doc = << >> /\ href = <<"page">>
  /\ value = << >> /\ containerActive = << >> /\ resultsActive = << >>
  /\ innerHTML = << >> /\ timers = << >> /\ queue = << >>
  /\ last = NoOp
  /\ layerCard = CollapsedCard(<< >>)
  /\ menu = ClosedMenu(TRUE)
  /\ osi = NoOsiLayers
  /\ quiz = NoQuiz
  /\ throttle = Throttle(ScrollLimit)

\* !v for the values inThrottle takes
Not(v) == v \in {"undefined", "false"}

\* a throttled function that invokes func on every call
Throttled_NoFlag(t) ==
  [t EXCEPT !.calls = @ + 1,
            !.op = "call", !.wasInThrottle = t.inThrottle,
            !.invocationsBefore = t.invocations,
            !.invoked = TRUE,
            !.invocations = @ + 1,
            !.inWindow = @ + 1,
            !.timeouts = Append(@, t.limit)]

\* lines 27-33: one call of the returned function; func returns normally
Throttled(t) ==
  LET called == [t EXCEPT !.calls = @ + 1,
                          !.op = "call", !.wasInThrottle = t.inThrottle,
                          !.invocationsBefore = t.invocations]
  IN IF Not(t.inThrottle)
     THEN [called EXCEPT !.invoked = TRUE,
                         !.invocations = @ + 1,
                         !.inWindow = @ + 1,
                         !.inThrottle = "true",
                         !.timeouts = Append(@, t.limit)]
     ELSE [called EXCEPT !.invoked = FALSE]

ThrottledCall ==
  /\ throttle.calls < MaxThrottleCalls
  /\ throttle' = Throttled(throttle)
  /\ UNCHANGED <<loaded, doc, href, value, containerActive, resultsActive, innerHTML,
                 timers, queue, last, layerCard, menu, osi, quiz>>

ThrottleStep == ScrollLimit \div 4

\* time passes while no timeout of the closure is due
ThrottleTick ==
  /\ throttle.timeouts # << >>
  /\ \A i \in 1..Len(throttle.timeouts) : throttle.timeouts[i] > 0
  /\ throttle' = [throttle EXCEPT
                    !.timeouts = [i \in 1..Len(@) |-> @[i] - ThrottleStep],
                    !.op = "tick"]
  /\ UNCHANGED <<loaded, doc, href, value, containerActive, resultsActive, innerHTML,
                 timers, queue, last, layerCard, menu, osi, quiz>>

\* line 32: the callback of the oldest due timeout
ThrottleTimeout ==
  /\ throttle.timeouts # << >>
  /\ Head(throttle.timeouts) <= 0
  /\ throttle' = [throttle EXCEPT !.inThrottle = "false",
                                  !.timeouts = Tail(@),
                                  !.inWindow = 0,
                                  !.op = "timeout",
                                  !.wasInThrottle = throttle.inThrottle,
                                  !.invocationsBefore = throttle.invocations]
  /\ UNCHANGED <<loaded, doc, href, value, containerActive, resultsActive, innerHTML,
                 timers, queue, last, layerCard, menu, osi, quiz>>

NextThrottle == ThrottledCall \/ ThrottleTick \/ ThrottleTimeout

SpecThrottle == InitThrottle /\ [][NextThrottle]_vars

\* time passes and a due timeout runs its callback
SpecThrottleFair == SpecThrottle /\ WF_vars(ThrottleTick) /\ WF_vars(ThrottleTimeout)

\* C25: a call invokes func exactly when no window is open, so the first
\* call and the first call after each window invoke it and the calls made
\* in an open window are dropped; func runs at most once per window; the
\* timeout that ends a window invokes nothing; and an open window always
\* eventually reopens.
ThrottleLeadingEdgeOnly ==
  /\ [](throttle.op = "call" =>
          /\ throttle.invoked <=> Not(throttle.wasInThrottle)
          /\ throttle.calls = 1 => throttle.invoked
          /\ throttle.invocations =
               throttle.invocationsBefore + (IF throttle.invoked THEN 1 ELSE 0))
  /\ [](throttle.inWindow <= 1)
  /\ [](throttle.op = "timeout" => throttle.invocations = throttle.invocationsBefore)
  /\ (~Not(throttle.inThrottle)) ~> Not(throttle.inThrottle)

\* a call was dropped in an open window, the window has reopened and the
\* next call has invoked func again
ThrottleLeadingEdgeOnlyWitness ==
  /\ throttle.op = "call"
  /\ throttle.invoked
  /\ throttle.wasInThrottle = "false"
  /\ throttle.invocations = 2
  /\ throttle.calls > 2

====
